---- MODULE Spec2Model ----
(***************************************************************************)
(* State machine of the "encuentros" application (src/App.tsx): the own    *)
(* posts, the candidate catalog with its per-candidate status, the chat    *)
(* collection, the selection / view state that gates which handler the     *)
(* user can reach, and the two asynchronous continuations of the program   *)
(* (the opener request awaited by handleConnect and the reply timeout      *)
(* armed by sendMessage).                                                  *)
(*                                                                         *)
(* A nullable React state (Encounter | null, Chat | null, Location | null) *)
(* is a sequence of length 0 (null) or 1 (the value).                      *)
(***************************************************************************)
EXTENDS Integers, Sequences, FiniteSets, TLC

\* ---------------------------------------------------------------- bounds
\* largest number of candidates the generator returns in one catalog
MaxCandidates == 2
\* coordinates are the points 0..MaxCoord of the map, CoordStep metres apart
MaxCoord == 2
\* number of own posts published in one run
MaxPublishes == 1
\* number of messages the user sends in one run
MaxSends == 1
\* number of own posts published in one run of SpecPosts (one more than the
\* cap, so that a publish is attempted on a full set of own posts)
MaxPosts == 6
\* number of own posts published in one run of SpecVisible (two, so that a
\* candidate can be near one own post and far from the other)
MaxNearPosts == 2
\* number of messages the user sends in one run of SpecSends (two, so that
\* a message can be sent while the reply to the one before it is pending)
MaxChatSends == 2

\* own posts published while the map is looked at
MaxMapPosts == 2

\* own posts published while the explore tab is looked at
MaxExplorePosts == 2

\* number of tags of AVAILABLE_TAGS the generator and the filter draw on
MaxTags == 2

\* the zoom levels the map is taken through
MinMapZoom == 13
MaxMapZoom == 16

\* ------------------------------------------------------ program constants
\* cap on simultaneous own posts (handleCreateEncounter, handleQuickPublish)
MaxMyEncounters == 5
\* MATCH_RADIUS of utils/geo, in metres
MATCH_RADIUS == 150
\* metres between two neighbouring points of the map
CoordStep == 150
\* the same step in micro-degrees (150 m of latitude are 0.00135 degrees)
StepMicroDeg == 1350
\* one degree, in micro-degrees
DegreeMicro == 1000000
\* the least a ** b can be, as micro-degrees of its square root, for a
\* latitude difference a of a micro-degree or more and an exponent b, the
\* square of a longitude difference, of 0.000008 or less
NearDegreeMicro == 999900
\* the CDMX fallback coordinate of the location effect
FallbackCoord == 0
\* the coordinate the location source reports (position.coords)
DeviceCoord == 1

PENDING == "PENDING"
LIKED_BY_ME == "LIKED_BY_ME"
LIKED_BY_THEM == "LIKED_BY_THEM"
MATCHED == "MATCHED"
HIDDEN == "HIDDEN"

EncounterStatus == {PENDING, LIKED_BY_ME, LIKED_BY_THEM, MATCHED, HIDDEN}

Coords == 0..MaxCoord

Zooms == MinMapZoom..MaxMapZoom

AVAILABLE_TAGS == <<"Flechazo", "Cruzamos miradas", "Interés", "Curiosidad",
                    "Me atraes", "Me gustas">>
\* the tags in use
Tags == {AVAILABLE_TAGS[i] : i \in 1..MaxTags}

\* the fixed default opener of generateInitialMessage's catch branch
FallbackOpener == "Hola! Me alegro de que nos hayamos encontrado."
\* any text the generator returns on success
GeneratedOpener == "generated opener"

VARIABLES
    geoPhase,           \* position of the location effect and of its fetch
    loading,            \* useState(true)
    location,           \* Location | null
    mapCenter,          \* Location | null
    myEncounters,       \* Encounter[]: own posts, newest first
    nearbyEncounters,   \* Encounter[]: candidate catalog
    chats,              \* Chat[]
    selectedEncounter,  \* Encounter | null (a snapshot, not a reference)
    activeChat,         \* Chat | null (a snapshot, not a reference)
    currentView,        \* 'main' | 'create' | 'details' | 'chat'
    showHidden,
    showUnmatchDialog,
    showMatchOverlay,   \* .visible
    isTyping,
    openers,            \* generateInitialMessage calls awaited by handleConnect
    timers,             \* pending setTimeout callbacks of sendMessage, FIFO
    published,          \* own posts published so far (Date.now() of their ids)
    sent,               \* messages sent so far (Date.now() of their ids)
    mapZoom,            \* useState(16)
    mapFilters,         \* { mine, possible, likedMe, match }
    exploreMode,        \* 'grouped' | 'list' | 'drilldown'
    exploreSelectedMyId, \* string | null
    filterTags          \* EncounterTag[], as the set of its elements

vars == <<geoPhase, loading, location, mapCenter, myEncounters,
          nearbyEncounters, chats, selectedEncounter, activeChat,
          currentView, showHidden, showUnmatchDialog, showMatchOverlay,
          isTyping, openers, timers, published, sent, mapZoom, mapFilters,
          exploreMode, exploreSelectedMyId, filterTags>>

\* ---------------------------------------------------------------- helpers
Null == <<>>
Some(x) == <<x>>
IsNull(v) == Len(v) = 0
Val(v) == v[1]

\* Array.prototype.filter
FilterSeq(s, P(_)) == SelectSeq(s, P)

\* Array.prototype.find: the first element satisfying P, or null
FindSeq(s, P(_)) ==
    LET found == SelectSeq(s, P)
    IN  IF Len(found) = 0 THEN Null ELSE Some(found[1])

\* id of the index-th generated candidate: `encounter-${index}`
CandidateId(index) == "encounter-" \o ToString(index)
\* userId of the index-th generated candidate: `mock-user-${index}`
MockUserId(index) == "mock-user-" \o ToString(index)
\* id of an own post: `mine-${Date.now()}` / `mine-quick-${Date.now()}`
MineId(t) == "mine-" \o ToString(t)

Abs(x) == IF x < 0 THEN 0 - x ELSE x

\* The points of the map form a staircase: point c lies (c \div 2) steps
\* north and ((c + 1) \div 2) steps east of point 0, so that neighbouring
\* points differ in longitude only (0 and 1) or in latitude only (1 and 2)
\* and the others in both.
GridNorth(c) == c \div 2
GridEast(c) == (c + 1) \div 2

\* location.lat and location.lng of a point, in micro-degrees
Lat(c) == StepMicroDeg * GridNorth(c)
Lng(c) == StepMicroDeg * GridEast(c)

\* the integer part of a square root
ISqrt(n) == CHOOSE r \in 0..n : r * r <= n /\ (r + 1) * (r + 1) > n

\* metres between any two points of the map (planar)
DistanceTable ==
    [a \in Coords |-> [b \in Coords |->
        LET dn == GridNorth(a) - GridNorth(b)
            de == GridEast(a) - GridEast(b)
        IN  ISqrt(CoordStep * CoordStep * (dn * dn + de * de))]]

\* getDistanceInMeters of utils/geo
getDistanceInMeters(a, b) == DistanceTable[a][b]

\* visibleEncounters asking for every own post to be near (every, not some)
visibleEncountersEvery ==
    LET keep(other) ==
            /\ ~(~showHidden /\ other.status = HIDDEN)
            /\ \A i \in 1..Len(myEncounters) :
                   getDistanceInMeters(myEncounters[i].location,
                                       other.location) <= MATCH_RADIUS
    IN  FilterSeq(nearbyEncounters, keep)

\* visibleEncounters with the radius excluded (< instead of <=)
visibleEncountersExclusive ==
    IF Len(myEncounters) = 0 THEN <<>>
    ELSE LET keep(other) ==
                 /\ ~(~showHidden /\ other.status = HIDDEN)
                 /\ \E i \in 1..Len(myEncounters) :
                        getDistanceInMeters(myEncounters[i].location,
                                            other.location) < MATCH_RADIUS
         IN  FilterSeq(nearbyEncounters, keep)

\* visibleEncounters (useMemo)
visibleEncounters ==
    IF Len(myEncounters) = 0 THEN <<>>
    ELSE LET keep(other) ==
                 /\ ~(~showHidden /\ other.status = HIDDEN)
                 /\ \E i \in 1..Len(myEncounters) :
                        getDistanceInMeters(myEncounters[i].location,
                                            other.location) <= MATCH_RADIUS
         IN  FilterSeq(nearbyEncounters, keep)

\* ------------------------------------------------------- clusteredMarkers
\* the filter of the candidates by the toggle of their category
showOnMap(filters, hidden, e) ==
    IF e.status = MATCHED THEN filters.match
    ELSE IF e.status = LIKED_BY_THEM THEN filters.likedMe
    ELSE IF e.status = HIDDEN THEN hidden
    ELSE filters.possible

\* markersToShow ignoring the toggle of the own posts
markersForAlwaysMine(filters, hidden, mine, visible) ==
    LET keep(e) == showOnMap(filters, hidden, e)
    IN  mine \o FilterSeq(visible, keep)

\* markersToShow, as a function of what the memo reads
markersFor(filters, hidden, mine, visible) ==
    LET keep(e) == showOnMap(filters, hidden, e)
    IN  (IF filters.mine THEN mine ELSE <<>>) \o FilterSeq(visible, keep)

markersToShow ==
    markersFor(mapFilters, showHidden, myEncounters, visibleEncounters)

\* threshold with the two outer bands exchanged
clusterThresholdSwapped(zoom) ==
    IF zoom < 14 THEN 200 ELSE IF zoom < 16 THEN 1000 ELSE 5000

\* threshold, in micro-degrees: 0.005, 0.001 or 0.0002 degrees
clusterThreshold(zoom) ==
    IF zoom < 14 THEN 5000 ELSE IF zoom < 16 THEN 1000 ELSE 200

\* dist = Math.sqrt(Math.pow(dlat, Math.pow(dlng, 2))), in micro-degrees,
\* null standing for NaN.  The differences are below one degree, so the
\* exponent dlng * dlng is 0 or a fraction between 0 and 1:
\*   x ** 0 is 1 for every x;  0 ** b is 0 for b > 0;
\*   a negative base with a fractional exponent gives NaN;
\*   a positive base below 1 with so small an exponent gives almost 1.
clusterDist(current, other) ==
    LET dlat == Lat(current.location) - Lat(other.location)
        dlng == Lng(current.location) - Lng(other.location)
    IN  IF dlng = 0 THEN Some(DegreeMicro)
        ELSE IF dlat = 0 THEN Some(0)
        ELSE IF dlat < 0 THEN Null
        ELSE Some(NearDegreeMicro)

\* dist < threshold (false when dist is NaN)
distBelow(dist, threshold) == ~IsNull(dist) /\ Val(dist) < threshold

\* the test of the inner forEach without processedIds: only the seed
\* itself is passed over
joinsAgain(current, other, threshold, processedIds) ==
    /\ other.id # current.id
    /\ distBelow(clusterDist(current, other), threshold)

\* the test of the inner forEach: other is not processed and
\* dist < threshold
joins(current, other, threshold, processedIds) ==
    /\ other.id \notin processedIds
    /\ distBelow(clusterDist(current, other), threshold)

RECURSIVE joinLoop(_, _, _, _, _)
\* the inner forEach from the j-th marker on; st holds clusterGroup and
\* processedIds
joinLoop(markers, current, threshold, j, st) ==
    IF j > Len(markers) THEN st
    ELSE LET other == markers[j]
         IN  IF joins(current, other, threshold, st.processedIds)
             THEN joinLoop(markers, current, threshold, j + 1,
                           [clusterGroup |-> Append(st.clusterGroup, other),
                            processedIds |->
                                st.processedIds \cup {other.id}])
             ELSE joinLoop(markers, current, threshold, j + 1, st)

RECURSIVE clusterLoop(_, _, _, _)
\* the outer forEach from the i-th marker on: the clusterGroup of every
\* seed, in the order of the seeds
clusterLoop(markers, threshold, i, processedIds) ==
    IF i > Len(markers) THEN <<>>
    ELSE LET current == markers[i]
         IN  IF current.id \in processedIds
             THEN clusterLoop(markers, threshold, i + 1, processedIds)
             ELSE LET st == joinLoop(markers, current, threshold, 1,
                                     [clusterGroup |-> <<current>>,
                                      processedIds |->
                                          processedIds \cup {current.id}])
                  IN  <<st.clusterGroup>> \o
                      clusterLoop(markers, threshold, i + 1, st.processedIds)

\* the groups clusteredMarkers forms of the given markers at the given zoom
clusterGroups(markers, zoom) ==
    clusterLoop(markers, clusterThreshold(zoom), 1, {})

RECURSIVE SumLat(_)
\* clusterGroup.reduce((sum, item) => sum + item.location.lat, 0)
SumLat(group) ==
    IF Len(group) = 0 THEN 0
    ELSE Lat(group[Len(group)].location) + SumLat(SubSeq(group, 1, Len(group) - 1))

RECURSIVE SumLng(_)
SumLng(group) ==
    IF Len(group) = 0 THEN 0
    ELSE Lng(group[Len(group)].location) + SumLng(SubSeq(group, 1, Len(group) - 1))

\* sum / length, kept as the exact fraction
Mean(sum, length) == [num |-> sum, den |-> length]

\* the cluster marker pushed for a group of two or more
clusterOf(clusterGroup) ==
    [id |-> "cluster-" \o clusterGroup[1].id,
     lat |-> Mean(SumLat(clusterGroup), Len(clusterGroup)),
     lng |-> Mean(SumLng(clusterGroup), Len(clusterGroup)),
     count |-> Len(clusterGroup)]

\* clusteredMarkers, as a function of the markers and the zoom
clusteredMarkersFor(markers, zoom) ==
    IF Len(markers) = 0 THEN [clusters |-> <<>>, singles |-> <<>>]
    ELSE LET groups == clusterGroups(markers, zoom)
             several(g) == Len(g) > 1
             alone(g) == ~(Len(g) > 1)
             many == FilterSeq(groups, several)
             ones == FilterSeq(groups, alone)
         IN  [clusters |-> [k \in 1..Len(many) |-> clusterOf(many[k])],
              singles |-> [k \in 1..Len(ones) |-> ones[k][1]]]

\* clusteredMarkers (useMemo)
clusteredMarkers == clusteredMarkersFor(markersToShow, mapZoom)

\* ------------------------------------------------------------ explore tab
\* the candidates of the visible set within MATCH_RADIUS of one own post
\* (the filter of the grouped count and of the drill-down)
nearMyPost(myPost) ==
    LET keep(other) ==
            getDistanceInMeters(myPost.location, other.location)
                <= MATCH_RADIUS
    IN  FilterSeq(visibleEncounters, keep)

\* count of the card of an own post in the grouped view
groupedCount(mine) == Len(nearMyPost(mine))

\* the test of the tag filter asking for every chosen tag
hasEveryFilterTag(e) == \A tag \in filterTags : tag \in e.tags

\* e.tags.some(tag => filterTags.includes(tag))
hasFilterTag(e) == \E tag \in e.tags : tag \in filterTags

\* exploreList whose drill-down does not look at the selected post
exploreListAnyPost ==
    IF exploreMode = "drilldown" /\ ~IsNull(exploreSelectedMyId)
    THEN LET isSelected(e) == e.id = Val(exploreSelectedMyId)
             myPost == FindSeq(myEncounters, isSelected)
         IN  IF IsNull(myPost) THEN <<>> ELSE visibleEncounters
    ELSE IF exploreMode = "list"
    THEN IF Cardinality(filterTags) > 0
         THEN FilterSeq(visibleEncounters, hasFilterTag)
         ELSE visibleEncounters
    ELSE myEncounters

\* exploreList (useMemo)
exploreList ==
    IF exploreMode = "drilldown" /\ ~IsNull(exploreSelectedMyId)
    THEN LET isSelected(e) == e.id = Val(exploreSelectedMyId)
             myPost == FindSeq(myEncounters, isSelected)
         IN  IF IsNull(myPost) THEN <<>> ELSE nearMyPost(Val(myPost))
    ELSE IF exploreMode = "list"
    THEN IF Cardinality(filterTags) > 0
         THEN FilterSeq(visibleEncounters, hasFilterTag)
         ELSE visibleEncounters
    ELSE myEncounters

\* which of the four screens the render function returns
ShownView ==
    IF loading \/ IsNull(location) THEN "loading"
    ELSE IF currentView = "create" THEN "create"
    ELSE IF currentView = "details" /\ ~IsNull(selectedEncounter) THEN "details"
    ELSE IF currentView = "chat" /\ ~IsNull(activeChat) THEN "chat"
    ELSE "main"

\* the content of the main tabs view can be clicked: the match overlay
\* (fixed inset-0 z-[1000]) is not covering it
MainInteractive == ShownView = "main" /\ ~showMatchOverlay

\* ------------------------------------------------------------------- Init
Init ==
    /\ geoPhase = "mount"
    /\ loading = TRUE
    /\ location = Null
    /\ mapCenter = Null
    /\ myEncounters = <<>>
    /\ nearbyEncounters = <<>>
    /\ chats = <<>>
    /\ selectedEncounter = Null
    /\ activeChat = Null
    /\ currentView = "main"
    /\ showHidden = FALSE
    /\ showUnmatchDialog = FALSE
    /\ showMatchOverlay = FALSE
    /\ isTyping = FALSE
    /\ openers = <<>>
    /\ timers = <<>>
    /\ published = 0
    /\ sent = 0
    /\ mapZoom = 16
    /\ mapFilters = [mine |-> TRUE, possible |-> TRUE, likedMe |-> TRUE,
                     match |-> TRUE]
    /\ exploreMode = "grouped"
    /\ exploreSelectedMyId = Null
    /\ filterTags = {}

\* ------------------------------------------------------- location effect
\* useEffect(..., []): asks for the position when a location source exists
LocationEffect ==
    /\ geoPhase = "mount"
    /\ \E hasGeolocation \in BOOLEAN :
           geoPhase' = IF hasGeolocation THEN "requested" ELSE "unsupported"
    /\ UNCHANGED <<filterTags, mapZoom, mapFilters, exploreMode,
                   exploreSelectedMyId,
                   loading, location, mapCenter, myEncounters,
                   nearbyEncounters, chats, selectedEncounter, activeChat,
                   currentView, showHidden, showUnmatchDialog,
                   showMatchOverlay, isTyping, openers, timers, published,
                   sent>>

\* success callback of getCurrentPosition
PositionSuccess ==
    /\ geoPhase = "requested"
    /\ LET loc == DeviceCoord
       IN  /\ location' = Some(loc)
           /\ mapCenter' = Some(loc)
    /\ geoPhase' = "fetching"
    /\ UNCHANGED <<filterTags, mapZoom, mapFilters, exploreMode,
                   exploreSelectedMyId,
                   loading, myEncounters, nearbyEncounters, chats,
                   selectedEncounter, activeChat, currentView, showHidden,
                   showUnmatchDialog, showMatchOverlay, isTyping, openers,
                   timers, published, sent>>

\* error callback of getCurrentPosition
PositionError ==
    /\ geoPhase = "requested"
    /\ location' = Some(FallbackCoord)
    /\ mapCenter' = Some(FallbackCoord)
    /\ loading' = FALSE
    /\ geoPhase' = "fetchingFallback"
    /\ UNCHANGED <<filterTags, mapZoom, mapFilters, exploreMode,
                   exploreSelectedMyId,
                   myEncounters, nearbyEncounters, chats, selectedEncounter,
                   activeChat, currentView, showHidden, showUnmatchDialog,
                   showMatchOverlay, isTyping, openers, timers, published,
                   sent>>

\* getRandomTags: one or two of the tags, as a set
getRandomTags == {ts \in SUBSET Tags : Cardinality(ts) \in {1, 2}}

\* the draw of getRandomTags in the specifications that never read a tag
FixedTags == {{AVAILABLE_TAGS[1]}}

\* generateNearbyEncounters with every post already liked by its author
generateNearbyEncountersLiked(n, locs, tags) ==
    [i \in 1..n |-> [id |-> CandidateId(i - 1),
                     userId |-> MockUserId(i - 1),
                     location |-> locs[i],
                     status |-> LIKED_BY_THEM,
                     tags |-> tags[i]]]

\* generateNearbyEncounters: n posts, all PENDING, at the given coordinates
\* and with the given tags (an empty list when the generator fails)
generateNearbyEncounters(n, locs, tags) ==
    [i \in 1..n |-> [id |-> CandidateId(i - 1),
                     userId |-> MockUserId(i - 1),
                     location |-> locs[i],
                     status |-> PENDING,
                     tags |-> tags[i]]]

\* the callback of the .then of the fetch started by the success callback,
\* getRandomTags drawing from tagSets
EncountersLoadedWith(tagSets) ==
    /\ \E n \in 0..MaxCandidates : \E locs \in [1..n -> Coords] :
       \E tags \in [1..n -> tagSets] :
           LET encounters == generateNearbyEncounters(n, locs, tags)
           IN  nearbyEncounters' =
                   IF Len(encounters) > 0
                   THEN [encounters EXCEPT ![1].status = LIKED_BY_THEM]
                   ELSE encounters
    /\ loading' = FALSE
    /\ geoPhase' = "done"
    /\ UNCHANGED <<filterTags, mapZoom, mapFilters, exploreMode,
                   exploreSelectedMyId, location, mapCenter, myEncounters,
                   chats, selectedEncounter, activeChat, currentView,
                   showHidden, showUnmatchDialog, showMatchOverlay,
                   isTyping, openers, timers, published, sent>>

\* the fetch started by the success callback resolves
EncountersLoaded ==
    /\ geoPhase = "fetching"
    /\ EncountersLoadedWith(FixedTags)

\* .then of the fetch started by the error callback
EncountersLoadedFallback ==
    /\ geoPhase = "fetchingFallback"
    /\ \E n \in 0..MaxCandidates : \E locs \in [1..n -> Coords] :
       \E tags \in [1..n -> FixedTags] :
           nearbyEncounters' = generateNearbyEncounters(n, locs, tags)
    /\ geoPhase' = "done"
    /\ UNCHANGED <<filterTags, mapZoom, mapFilters, exploreMode,
                   exploreSelectedMyId,
                   loading, location, mapCenter, myEncounters, chats,
                   selectedEncounter, activeChat, currentView, showHidden,
                   showUnmatchDialog, showMatchOverlay, isTyping, openers,
                   timers, published, sent>>

\* ----------------------------------------------------------- map and toggles
\* onMoveEnd of MapEvents: the crosshair follows the map
MoveMap ==
    /\ MainInteractive
    /\ \E c \in Coords :
           /\ mapCenter # Some(c)
           /\ mapCenter' = Some(c)
    /\ UNCHANGED <<filterTags, mapZoom, mapFilters, exploreMode,
                   exploreSelectedMyId,
                   geoPhase, loading, location, myEncounters,
                   nearbyEncounters, chats, selectedEncounter, activeChat,
                   currentView, showHidden, showUnmatchDialog,
                   showMatchOverlay, isTyping, openers, timers, published,
                   sent>>

\* the "show hidden" checkbox of the map filter panel
ToggleShowHidden ==
    /\ MainInteractive
    /\ showHidden' = ~showHidden
    /\ UNCHANGED <<filterTags, mapZoom, mapFilters, exploreMode,
                   exploreSelectedMyId,
                   geoPhase, loading, location, mapCenter, myEncounters,
                   nearbyEncounters, chats, selectedEncounter, activeChat,
                   currentView, showUnmatchDialog, showMatchOverlay,
                   isTyping, openers, timers, published, sent>>

\* zoomend of MapEvents: the zoom buttons, the locate button, a click on a
\* cluster and the gestures of the map all end in setMapZoom(map.getZoom())
ZoomEnd ==
    /\ MainInteractive
    /\ \E z \in Zooms :
           /\ z # mapZoom
           /\ mapZoom' = z
    /\ UNCHANGED <<filterTags, mapFilters, exploreMode, exploreSelectedMyId,
                   geoPhase, loading, location, mapCenter, myEncounters,
                   nearbyEncounters, chats, selectedEncounter, activeChat,
                   currentView, showHidden, showUnmatchDialog,
                   showMatchOverlay, isTyping, openers, timers, published,
                   sent>>

\* the "Mis Encuentros" checkbox of the map filter panel, the only one of
\* the four toggles the panel renders
ToggleMineFilter ==
    /\ MainInteractive
    /\ mapFilters' = [mapFilters EXCEPT !.mine = ~mapFilters.mine]
    /\ UNCHANGED <<filterTags, mapZoom, exploreMode, exploreSelectedMyId,
                   geoPhase, loading, location, mapCenter, myEncounters,
                   nearbyEncounters, chats, selectedEncounter, activeChat,
                   currentView, showHidden, showUnmatchDialog,
                   showMatchOverlay, isTyping, openers, timers, published,
                   sent>>

\* click on a single marker of the map (own posts included)
SelectMarker ==
    /\ MainInteractive
    /\ \E i \in 1..Len(clusteredMarkers.singles) :
           selectedEncounter' = Some(clusteredMarkers.singles[i])
    /\ currentView' = "details"
    /\ UNCHANGED <<filterTags, mapZoom, mapFilters, exploreMode,
                   exploreSelectedMyId,
                   geoPhase, loading, location, mapCenter, myEncounters,
                   nearbyEncounters, chats, activeChat, showHidden,
                   showUnmatchDialog, showMatchOverlay, isTyping, openers,
                   timers, published, sent>>

\* click on the card of an own post in the grouped view of the explore tab
OpenDrilldown ==
    /\ MainInteractive
    /\ exploreMode = "grouped"
    /\ \E i \in 1..Len(myEncounters) :
           exploreSelectedMyId' = Some(myEncounters[i].id)
    /\ exploreMode' = "drilldown"
    /\ UNCHANGED <<filterTags, mapZoom, mapFilters, geoPhase, loading, location,
                   mapCenter, myEncounters, nearbyEncounters, chats,
                   selectedEncounter, activeChat, currentView, showHidden,
                   showUnmatchDialog, showMatchOverlay, isTyping, openers,
                   timers, published, sent>>

\* the back arrow of the drill-down
DrilldownBack ==
    /\ MainInteractive
    /\ exploreMode = "drilldown"
    /\ exploreMode' = "grouped"
    /\ UNCHANGED <<filterTags, mapZoom, mapFilters, exploreSelectedMyId,
                   geoPhase,
                   loading, location, mapCenter, myEncounters,
                   nearbyEncounters, chats, selectedEncounter, activeChat,
                   currentView, showHidden, showUnmatchDialog,
                   showMatchOverlay, isTyping, openers, timers, published,
                   sent>>

\* the "Ver por Publicación" / "Ver Todo el Mapa" button
ToggleExploreList ==
    /\ MainInteractive
    /\ exploreMode # "drilldown"
    /\ exploreMode' = IF exploreMode = "grouped" THEN "list" ELSE "grouped"
    /\ UNCHANGED <<filterTags, mapZoom, mapFilters, exploreSelectedMyId,
                   geoPhase,
                   loading, location, mapCenter, myEncounters,
                   nearbyEncounters, chats, selectedEncounter, activeChat,
                   currentView, showHidden, showUnmatchDialog,
                   showMatchOverlay, isTyping, openers, timers, published,
                   sent>>

\* toggleFilterTag: a tag button of the list view
toggleFilterTag(tag) ==
    /\ filterTags' = IF tag \in filterTags THEN filterTags \ {tag}
                     ELSE filterTags \cup {tag}
    /\ UNCHANGED <<mapZoom, mapFilters, exploreMode, exploreSelectedMyId,
                   geoPhase, loading, location, mapCenter, myEncounters,
                   nearbyEncounters, chats, selectedEncounter, activeChat,
                   currentView, showHidden, showUnmatchDialog,
                   showMatchOverlay, isTyping, openers, timers, published,
                   sent>>

ClickFilterTag ==
    /\ MainInteractive
    /\ exploreMode = "list"
    /\ \E tag \in Tags : toggleFilterTag(tag)

\* click on a card of the list or of the drill-down
SelectExplore ==
    /\ MainInteractive
    /\ exploreMode \in {"list", "drilldown"}
    /\ \E i \in 1..Len(exploreList) :
           selectedEncounter' = Some(exploreList[i])
    /\ currentView' = "details"
    /\ UNCHANGED <<filterTags, mapZoom, mapFilters, exploreMode,
                   exploreSelectedMyId,
                   geoPhase, loading, location, mapCenter, myEncounters,
                   nearbyEncounters, chats, activeChat, showHidden,
                   showUnmatchDialog, showMatchOverlay, isTyping, openers,
                   timers, published, sent>>

\* ------------------------------------------------------------- own posts
\* the own post both publish handlers build (status PENDING, at mapCenter)
NewMyEncounter == [id |-> MineId(published + 1),
                   userId |-> "me",
                   location |-> Val(mapCenter),
                   status |-> PENDING]

\* the "+" button of the bottom bar (the bar is drawn over the match overlay)
OpenCreateView ==
    /\ ShownView = "main"
    /\ currentView' = "create"
    /\ UNCHANGED <<filterTags, mapZoom, mapFilters, exploreMode,
                   exploreSelectedMyId,
                   geoPhase, loading, location, mapCenter, myEncounters,
                   nearbyEncounters, chats, selectedEncounter, activeChat,
                   showHidden, showUnmatchDialog, showMatchOverlay, isTyping,
                   openers, timers, published, sent>>

\* the back arrow of the create view
CloseCreateView ==
    /\ ShownView = "create"
    /\ currentView' = "main"
    /\ UNCHANGED <<filterTags, mapZoom, mapFilters, exploreMode,
                   exploreSelectedMyId,
                   geoPhase, loading, location, mapCenter, myEncounters,
                   nearbyEncounters, chats, selectedEncounter, activeChat,
                   showHidden, showUnmatchDialog, showMatchOverlay, isTyping,
                   openers, timers, published, sent>>

\* handleCreateEncounter without the limit on the number of own posts
handleCreateEncounterNoCap(formFilled) ==
    /\ IF IsNull(mapCenter) \/ ~formFilled
       THEN UNCHANGED <<myEncounters, currentView, published,
                         exploreMode>>
       ELSE /\ myEncounters' = <<NewMyEncounter>> \o myEncounters
            /\ currentView' = "main"
            /\ exploreMode' = "grouped"
            /\ published' = published + 1
    /\ UNCHANGED <<filterTags, mapZoom, mapFilters, exploreSelectedMyId,
                   geoPhase, loading, location, mapCenter, nearbyEncounters,
                   chats, selectedEncounter, activeChat, showHidden,
                   showUnmatchDialog, showMatchOverlay, isTyping, openers,
                   timers, sent>>

\* handleCreateEncounter; formFilled: title and description are both set
handleCreateEncounter(formFilled) ==
    /\ IF IsNull(mapCenter) \/ ~formFilled
       THEN UNCHANGED <<myEncounters, currentView, published,
                         exploreMode>>
       ELSE IF Len(myEncounters) >= MaxMyEncounters
       THEN UNCHANGED <<myEncounters, currentView, published,
                         exploreMode>>
       ELSE /\ myEncounters' = <<NewMyEncounter>> \o myEncounters
            /\ currentView' = "main"
            /\ exploreMode' = "grouped"
            /\ published' = published + 1
    /\ UNCHANGED <<filterTags, mapZoom, mapFilters, exploreSelectedMyId,
                   geoPhase, loading, location, mapCenter, nearbyEncounters,
                   chats, selectedEncounter, activeChat, showHidden,
                   showUnmatchDialog, showMatchOverlay, isTyping, openers,
                   timers, sent>>

\* the "Publicar" button of the create view
ClickCreateEncounter ==
    /\ ShownView = "create"
    /\ published < MaxPublishes
    /\ \E formFilled \in BOOLEAN : handleCreateEncounter(formFilled)

\* handleQuickPublish with the limit tested as > instead of >=
handleQuickPublishOffByOne ==
    /\ IF IsNull(mapCenter)
       THEN UNCHANGED <<myEncounters, currentView, published>>
       ELSE IF Len(myEncounters) > MaxMyEncounters
       THEN UNCHANGED <<myEncounters, currentView, published>>
       ELSE /\ myEncounters' = <<NewMyEncounter>> \o myEncounters
            /\ currentView' = "main"
            /\ published' = published + 1
    /\ UNCHANGED <<filterTags, mapZoom, mapFilters, exploreMode,
                   exploreSelectedMyId,
                   geoPhase, loading, location, mapCenter, nearbyEncounters,
                   chats, selectedEncounter, activeChat, showHidden,
                   showUnmatchDialog, showMatchOverlay, isTyping, openers,
                   timers, sent>>

\* handleQuickPublish
handleQuickPublish ==
    /\ IF IsNull(mapCenter)
       THEN UNCHANGED <<myEncounters, currentView, published>>
       ELSE IF Len(myEncounters) >= MaxMyEncounters
       THEN UNCHANGED <<myEncounters, currentView, published>>
       ELSE /\ myEncounters' = <<NewMyEncounter>> \o myEncounters
            /\ currentView' = "main"
            /\ published' = published + 1
    /\ UNCHANGED <<filterTags, mapZoom, mapFilters, exploreMode,
                   exploreSelectedMyId,
                   geoPhase, loading, location, mapCenter, nearbyEncounters,
                   chats, selectedEncounter, activeChat, showHidden,
                   showUnmatchDialog, showMatchOverlay, isTyping, openers,
                   timers, sent>>

\* the quick-publish button of the create view and the swipe-up gesture on
\* the "+" button of the bottom bar (handleTouchEnd)
ClickQuickPublish ==
    /\ ShownView \in {"create", "main"}
    /\ published < MaxPublishes
    /\ handleQuickPublish

\* a trash button that empties the whole list of own posts
DeleteEveryMyEncounter ==
    /\ MainInteractive
    /\ Len(myEncounters) > 0
    /\ myEncounters' = <<>>
    /\ UNCHANGED <<filterTags, mapZoom, mapFilters, exploreMode,
                   exploreSelectedMyId,
                   geoPhase, loading, location, mapCenter, nearbyEncounters,
                   chats, selectedEncounter, activeChat, currentView,
                   showHidden, showUnmatchDialog, showMatchOverlay, isTyping,
                   openers, timers, published, sent>>

\* the trash button of an own post in the profile tab
DeleteMyEncounter ==
    /\ MainInteractive
    /\ \E i \in 1..Len(myEncounters) :
           LET encounter == myEncounters[i]
               keep(e) == e.id # encounter.id
           IN  myEncounters' = FilterSeq(myEncounters, keep)
    /\ UNCHANGED <<filterTags, mapZoom, mapFilters, exploreMode,
                   exploreSelectedMyId,
                   geoPhase, loading, location, mapCenter, nearbyEncounters,
                   chats, selectedEncounter, activeChat, currentView,
                   showHidden, showUnmatchDialog, showMatchOverlay, isTyping,
                   openers, timers, published, sent>>

\* ------------------------------------------------------------ selection
\* click on a card of the explore list or on a single marker of the map:
\* both lists are drawn from visibleEncounters
SelectEncounter ==
    /\ MainInteractive
    /\ \E i \in 1..Len(visibleEncounters) :
           selectedEncounter' = Some(visibleEncounters[i])
    /\ currentView' = "details"
    /\ UNCHANGED <<filterTags, mapZoom, mapFilters, exploreMode,
                   exploreSelectedMyId,
                   geoPhase, loading, location, mapCenter, myEncounters,
                   nearbyEncounters, chats, activeChat, showHidden,
                   showUnmatchDialog, showMatchOverlay, isTyping, openers,
                   timers, published, sent>>

\* the back arrow of the details view
CloseDetails ==
    /\ ShownView = "details"
    /\ ~showUnmatchDialog
    /\ currentView' = "main"
    /\ UNCHANGED <<filterTags, mapZoom, mapFilters, exploreMode,
                   exploreSelectedMyId,
                   geoPhase, loading, location, mapCenter, myEncounters,
                   nearbyEncounters, chats, selectedEncounter, activeChat,
                   showHidden, showUnmatchDialog, showMatchOverlay, isTyping,
                   openers, timers, published, sent>>

\* the render conditions of the details view
isMatched == Val(selectedEncounter).status = MATCHED
isLiked == Val(selectedEncounter).status = LIKED_BY_ME

\* ------------------------------------------------------------- lifecycle
\* newStatus with the two branches of the conditional swapped
ConnectStatusSwapped(status) ==
    IF status = LIKED_BY_THEM THEN LIKED_BY_ME ELSE MATCHED

\* newStatus matching whoever is not matched yet
ConnectStatusEager(status) ==
    IF status = MATCHED THEN LIKED_BY_ME ELSE MATCHED

\* newStatus of handleConnect
ConnectStatus(status) ==
    IF status = LIKED_BY_THEM THEN MATCHED ELSE LIKED_BY_ME

\* the map writing the updated encounter over every entry
ReplaceEncounterEvery(encounters, updated) ==
    [i \in 1..Len(encounters) |-> updated]

\* prev.map(e => e.id === updated.id ? updated : e)
ReplaceEncounter(encounters, updated) ==
    [i \in 1..Len(encounters) |->
        IF encounters[i].id = updated.id THEN updated ELSE encounters[i]]

\* handleConnect up to its await: the status change and, for an instant
\* match, the start of the opener request
handleConnect ==
    /\ ~IsNull(selectedEncounter)
    /\ LET encounter == Val(selectedEncounter)
           isInstantMatch == encounter.status = LIKED_BY_THEM
           newStatus == ConnectStatus(encounter.status)
           updatedEncounter == [encounter EXCEPT !.status = newStatus]
       IN  /\ nearbyEncounters' =
                  ReplaceEncounter(nearbyEncounters, updatedEncounter)
           /\ selectedEncounter' = Some(updatedEncounter)
           /\ IF isInstantMatch
              THEN /\ showMatchOverlay' = TRUE
                   /\ openers' = Append(openers, encounter)
              ELSE UNCHANGED <<showMatchOverlay, openers>>
    /\ UNCHANGED <<filterTags, mapZoom, mapFilters, exploreMode,
                   exploreSelectedMyId,
                   geoPhase, loading, location, mapCenter, myEncounters,
                   chats, activeChat, currentView, showHidden,
                   showUnmatchDialog, isTyping, timers, published, sent>>

\* generateInitialMessage with nothing to fall back on
generateInitialMessageNoFallback(ok) == IF ok THEN GeneratedOpener ELSE ""

\* generateInitialMessage: the generated text, or the fixed default on failure
generateInitialMessage(ok) == IF ok THEN GeneratedOpener ELSE FallbackOpener

\* newChat created as already read and without the opening line
MatchChatNoOpener(encounter, initialMsg) ==
    [encounterId |-> encounter.id,
     unreadCount |-> 0,
     messages |-> << [id |-> "sys-1", senderId |-> "system",
                      text |-> "Es un Match"] >>]

\* newChat of handleConnect
MatchChat(encounter, initialMsg) ==
    [encounterId |-> encounter.id,
     unreadCount |-> 1,
     messages |-> << [id |-> "sys-1", senderId |-> "system",
                      text |-> "Es un Match"],
                     [id |-> "initial-1", senderId |-> encounter.userId,
                      text |-> initialMsg] >>]

\* handleConnect after its await: the k-th outstanding opener request
\* settles and the chat session is prepended
OpenerSettled(k, ok) ==
    /\ k \in 1..Len(openers)
    /\ LET encounter == openers[k]
           initialMsg == generateInitialMessage(ok)
       IN  chats' = <<MatchChat(encounter, initialMsg)>> \o chats
    /\ openers' = [i \in 1..(Len(openers) - 1) |->
                      IF i < k THEN openers[i] ELSE openers[i + 1]]
    /\ UNCHANGED <<filterTags, mapZoom, mapFilters, exploreMode,
                   exploreSelectedMyId,
                   geoPhase, loading, location, mapCenter, myEncounters,
                   nearbyEncounters, selectedEncounter, activeChat,
                   currentView, showHidden, showUnmatchDialog,
                   showMatchOverlay, isTyping, timers, published, sent>>

OpenerSettles == \E k \in 1..Len(openers) : \E ok \in BOOLEAN : OpenerSettled(k, ok)

\* handleReject removing the post from the catalog instead of hiding it
handleRejectRemoves ==
    /\ ~IsNull(selectedEncounter)
    /\ LET keep(e) == e.id # Val(selectedEncounter).id
       IN  nearbyEncounters' = FilterSeq(nearbyEncounters, keep)
    /\ selectedEncounter' = Null
    /\ currentView' = "main"
    /\ UNCHANGED <<filterTags, mapZoom, mapFilters, exploreMode,
                   exploreSelectedMyId,
                   geoPhase, loading, location, mapCenter, myEncounters,
                   chats, activeChat, showHidden, showUnmatchDialog,
                   showMatchOverlay, isTyping, openers, timers, published,
                   sent>>

\* handleReject
handleReject ==
    /\ ~IsNull(selectedEncounter)
    /\ LET updated == [Val(selectedEncounter) EXCEPT !.status = HIDDEN]
       IN  nearbyEncounters' = ReplaceEncounter(nearbyEncounters, updated)
    /\ selectedEncounter' = Null
    /\ currentView' = "main"
    /\ UNCHANGED <<filterTags, mapZoom, mapFilters, exploreMode,
                   exploreSelectedMyId,
                   geoPhase, loading, location, mapCenter, myEncounters,
                   chats, activeChat, showHidden, showUnmatchDialog,
                   showMatchOverlay, isTyping, openers, timers, published,
                   sent>>

\* handleUnmatch that resets the status but leaves the chat collection alone
handleUnmatchKeepsChats ==
    /\ ~IsNull(selectedEncounter)
    /\ LET id == Val(selectedEncounter).id
       IN  nearbyEncounters' =
               [i \in 1..Len(nearbyEncounters) |->
                   IF nearbyEncounters[i].id = id
                   THEN [nearbyEncounters[i] EXCEPT !.status = PENDING]
                   ELSE nearbyEncounters[i]]
    /\ showUnmatchDialog' = FALSE
    /\ selectedEncounter' = Null
    /\ currentView' = "main"
    /\ activeChat' = Null
    /\ UNCHANGED <<filterTags, mapZoom, mapFilters, exploreMode,
                   exploreSelectedMyId,
                   geoPhase, loading, location, mapCenter, myEncounters,
                   chats, showHidden, showMatchOverlay, isTyping, openers,
                   timers, published, sent>>

\* handleUnmatch that gives the candidate back the inbound like it had
handleUnmatchRestoresLike ==
    /\ ~IsNull(selectedEncounter)
    /\ LET id == Val(selectedEncounter).id
           keep(c) == c.encounterId # id
       IN  /\ nearbyEncounters' =
                  [i \in 1..Len(nearbyEncounters) |->
                      IF nearbyEncounters[i].id = id
                      THEN [nearbyEncounters[i] EXCEPT
                               !.status = LIKED_BY_THEM]
                      ELSE nearbyEncounters[i]]
           /\ chats' = FilterSeq(chats, keep)
    /\ showUnmatchDialog' = FALSE
    /\ selectedEncounter' = Null
    /\ currentView' = "main"
    /\ activeChat' = Null
    /\ UNCHANGED <<filterTags, mapZoom, mapFilters, exploreMode,
                   exploreSelectedMyId,
                   geoPhase, loading, location, mapCenter, myEncounters,
                   showHidden, showMatchOverlay, isTyping, openers, timers,
                   published, sent>>

\* handleUnmatch
handleUnmatch ==
    /\ ~IsNull(selectedEncounter)
    /\ LET id == Val(selectedEncounter).id
           keep(c) == c.encounterId # id
       IN  /\ nearbyEncounters' =
                  [i \in 1..Len(nearbyEncounters) |->
                      IF nearbyEncounters[i].id = id
                      THEN [nearbyEncounters[i] EXCEPT !.status = PENDING]
                      ELSE nearbyEncounters[i]]
           /\ chats' = FilterSeq(chats, keep)
    /\ showUnmatchDialog' = FALSE
    /\ selectedEncounter' = Null
    /\ currentView' = "main"
    /\ activeChat' = Null
    /\ UNCHANGED <<filterTags, mapZoom, mapFilters, exploreMode,
                   exploreSelectedMyId,
                   geoPhase, loading, location, mapCenter, myEncounters,
                   showHidden, showMatchOverlay, isTyping, openers, timers,
                   published, sent>>

\* the buttons of the details view (Actions block and unmatch dialog)
ClickConnect ==
    /\ ShownView = "details"
    /\ ~showUnmatchDialog
    /\ ~isMatched /\ ~isLiked
    /\ handleConnect

ClickReject ==
    /\ ShownView = "details"
    /\ ~showUnmatchDialog
    /\ ~isMatched /\ ~isLiked
    /\ handleReject

OpenUnmatchDialog ==
    /\ ShownView = "details"
    /\ ~showUnmatchDialog
    /\ isMatched
    /\ showUnmatchDialog' = TRUE
    /\ UNCHANGED <<filterTags, mapZoom, mapFilters, exploreMode,
                   exploreSelectedMyId,
                   geoPhase, loading, location, mapCenter, myEncounters,
                   nearbyEncounters, chats, selectedEncounter, activeChat,
                   currentView, showHidden, showMatchOverlay, isTyping,
                   openers, timers, published, sent>>

CloseUnmatchDialog ==
    /\ ShownView = "details"
    /\ showUnmatchDialog
    /\ showUnmatchDialog' = FALSE
    /\ UNCHANGED <<filterTags, mapZoom, mapFilters, exploreMode,
                   exploreSelectedMyId,
                   geoPhase, loading, location, mapCenter, myEncounters,
                   nearbyEncounters, chats, selectedEncounter, activeChat,
                   currentView, showHidden, showMatchOverlay, isTyping,
                   openers, timers, published, sent>>

ClickUnmatch ==
    /\ ShownView = "details"
    /\ showUnmatchDialog
    /\ handleUnmatch

\* ------------------------------------------------------------------ chat
\* prev.map(c => c.encounterId === updated.encounterId ? updated : c)
ReplaceChat(cs, updated) ==
    [i \in 1..Len(cs) |->
        IF cs[i].encounterId = updated.encounterId THEN updated ELSE cs[i]]

\* the recovery session seeded like a fresh match: opener and unread 1
RecoveryChatWithOpener(enc) ==
    [encounterId |-> enc.id,
     unreadCount |-> 1,
     messages |-> << [id |-> "sys-recovery", senderId |-> "system",
                      text |-> "Es un Match"],
                     [id |-> "initial-1", senderId |-> enc.userId,
                      text |-> FallbackOpener] >>]

\* newChat of openChat (recovery path)
RecoveryChat(enc) ==
    [encounterId |-> enc.id,
     unreadCount |-> 0,
     messages |-> << [id |-> "sys-recovery", senderId |-> "system",
                      text |-> "Es un Match"] >>]

\* openChat
openChat(encounterId) ==
    LET hasId(c) == c.encounterId = encounterId
        isEnc(e) == e.id = encounterId
        found == FindSeq(chats, hasId)
        enc == FindSeq(nearbyEncounters, isEnc)
        recovered == IsNull(found) /\ ~IsNull(enc)
        chats1 == IF recovered
                  THEN Append(chats, RecoveryChat(Val(enc)))
                  ELSE chats
        chat == IF recovered THEN Some(RecoveryChat(Val(enc))) ELSE found
    IN  /\ IF ~IsNull(chat)
           THEN LET updatedChat == [Val(chat) EXCEPT !.unreadCount = 0]
                IN  /\ chats' = ReplaceChat(chats1, updatedChat)
                    /\ activeChat' = Some(updatedChat)
                    /\ currentView' = "chat"
                    /\ showMatchOverlay' = FALSE
           ELSE UNCHANGED <<chats, activeChat, currentView, showMatchOverlay>>
        /\ UNCHANGED <<filterTags, mapZoom, mapFilters, exploreMode,
                   exploreSelectedMyId,
                       geoPhase, loading, location, mapCenter, myEncounters,
                       nearbyEncounters, selectedEncounter, showHidden,
                       showUnmatchDialog, isTyping, openers, timers,
                       published, sent>>

\* the chat button of the details view of a matched candidate
ClickOpenChat ==
    /\ ShownView = "details"
    /\ ~showUnmatchDialog
    /\ isMatched
    /\ openChat(Val(selectedEncounter).id)

\* onChat of the match overlay
OverlayChat ==
    /\ ShownView = "main"
    /\ showMatchOverlay
    /\ IF ~IsNull(selectedEncounter)
       THEN openChat(Val(selectedEncounter).id)
       ELSE UNCHANGED vars

\* onClose of the match overlay
OverlayClose ==
    /\ ShownView = "main"
    /\ showMatchOverlay
    /\ showMatchOverlay' = FALSE
    /\ UNCHANGED <<filterTags, mapZoom, mapFilters, exploreMode,
                   exploreSelectedMyId,
                   geoPhase, loading, location, mapCenter, myEncounters,
                   nearbyEncounters, chats, selectedEncounter, activeChat,
                   currentView, showHidden, showUnmatchDialog, isTyping,
                   openers, timers, published, sent>>

\* click on a row of the chat list (matches tab)
ChatListClick ==
    /\ MainInteractive
    /\ \E i \in 1..Len(chats) :
           LET updatedChat == [chats[i] EXCEPT !.unreadCount = 0]
           IN  /\ chats' = ReplaceChat(chats, updatedChat)
               /\ activeChat' = Some(updatedChat)
    /\ currentView' = "chat"
    /\ UNCHANGED <<filterTags, mapZoom, mapFilters, exploreMode,
                   exploreSelectedMyId,
                   geoPhase, loading, location, mapCenter, myEncounters,
                   nearbyEncounters, selectedEncounter, showHidden,
                   showUnmatchDialog, showMatchOverlay, isTyping, openers,
                   timers, published, sent>>

\* chats.reduce((acc, chat) => acc + chat.unreadCount, 0)
RECURSIVE reduceUnreadCount(_, _)
reduceUnreadCount(cs, acc) ==
    IF cs = <<>> THEN acc
    ELSE reduceUnreadCount(Tail(cs), acc + Head(cs).unreadCount)

\* totalUnreadCount (useMemo)
totalUnreadCount == reduceUnreadCount(chats, 0)

\* the back arrow of the chat view
CloseChat ==
    /\ ShownView = "chat"
    /\ currentView' = "main"
    /\ UNCHANGED <<filterTags, mapZoom, mapFilters, exploreMode,
                   exploreSelectedMyId,
                   geoPhase, loading, location, mapCenter, myEncounters,
                   nearbyEncounters, chats, selectedEncounter, activeChat,
                   showHidden, showUnmatchDialog, showMatchOverlay, isTyping,
                   openers, timers, published, sent>>

\* handleViewProfile, from the header of the chat view
handleViewProfile(encounterId) ==
    LET isEnc(e) == e.id = encounterId
        enc == FindSeq(nearbyEncounters, isEnc)
    IN  /\ IF ~IsNull(enc)
           THEN /\ selectedEncounter' = enc
                /\ currentView' = "details"
           ELSE UNCHANGED <<selectedEncounter, currentView>>
        /\ UNCHANGED <<filterTags, mapZoom, mapFilters, exploreMode,
                   exploreSelectedMyId,
                       geoPhase, loading, location, mapCenter, myEncounters,
                       nearbyEncounters, chats, activeChat, showHidden,
                       showUnmatchDialog, showMatchOverlay, isTyping,
                       openers, timers, published, sent>>

ClickViewProfile ==
    /\ ShownView = "chat"
    /\ handleViewProfile(Val(activeChat).encounterId)

\* sendMessage up to setTimeout: the user's message is appended and the
\* callback is armed with the values its closure captures
sendMessage ==
    /\ ~IsNull(activeChat)
    /\ LET msg == [id |-> "msg-" \o ToString(sent + 1), senderId |-> "me",
                   text |-> "text"]
           updatedChat == [Val(activeChat) EXCEPT
                              !.messages = Append(@, msg)]
       IN  /\ activeChat' = Some(updatedChat)
           /\ chats' = ReplaceChat(chats, updatedChat)
           /\ timers' = Append(timers,
                           [activeChat |-> Val(activeChat),
                            updatedChat |-> updatedChat,
                            currentView |-> currentView,
                            now |-> sent + 1])
    /\ isTyping' = TRUE
    /\ sent' = sent + 1
    /\ UNCHANGED <<filterTags, mapZoom, mapFilters, exploreMode,
                   exploreSelectedMyId,
                   geoPhase, loading, location, mapCenter, myEncounters,
                   nearbyEncounters, selectedEncounter, currentView,
                   showHidden, showUnmatchDialog, showMatchOverlay, openers,
                   published>>

\* onSubmit of the form of the chat view
SubmitMessage ==
    /\ ShownView = "chat"
    /\ sent < MaxSends
    /\ sendMessage

\* the setTimeout callback counting every reply as unread
ReplyTimeoutCounts ==
    /\ Len(timers) > 0
    /\ LET t == Head(timers)
           reply == [id |-> "reply-" \o ToString(t.now),
                     senderId |-> "partner", text |-> "reply"]
           replyChat == [t.updatedChat EXCEPT !.messages = Append(@, reply)]
           onChat(c) ==
               IF c.encounterId = t.activeChat.encounterId
               THEN [replyChat EXCEPT !.unreadCount = c.unreadCount + 1]
               ELSE c
       IN  /\ activeChat' =
                  IF ~IsNull(activeChat)
                     /\ Val(activeChat).encounterId = t.activeChat.encounterId
                  THEN Some(replyChat)
                  ELSE activeChat
           /\ chats' = [i \in 1..Len(chats) |-> onChat(chats[i])]
    /\ isTyping' = FALSE
    /\ timers' = Tail(timers)
    /\ UNCHANGED <<filterTags, mapZoom, mapFilters, exploreMode,
                   exploreSelectedMyId,
                   geoPhase, loading, location, mapCenter, myEncounters,
                   nearbyEncounters, selectedEncounter, currentView,
                   showHidden, showUnmatchDialog, showMatchOverlay, openers,
                   published, sent>>

\* the setTimeout callback of sendMessage: the oldest armed callback runs
ReplyTimeout ==
    /\ Len(timers) > 0
    /\ LET t == Head(timers)
           reply == [id |-> "reply-" \o ToString(t.now),
                     senderId |-> "partner", text |-> "reply"]
           replyChat == [t.updatedChat EXCEPT !.messages = Append(@, reply)]
           onChat(c) ==
               IF c.encounterId = t.activeChat.encounterId
               THEN IF t.currentView = "chat"
                       /\ t.activeChat.encounterId = c.encounterId
                    THEN replyChat
                    ELSE [replyChat EXCEPT !.unreadCount = c.unreadCount + 1]
               ELSE c
       IN  /\ activeChat' =
                  IF ~IsNull(activeChat)
                     /\ Val(activeChat).encounterId = t.activeChat.encounterId
                  THEN Some(replyChat)
                  ELSE activeChat
           /\ chats' = [i \in 1..Len(chats) |-> onChat(chats[i])]
    /\ isTyping' = FALSE
    /\ timers' = Tail(timers)
    /\ UNCHANGED <<filterTags, mapZoom, mapFilters, exploreMode,
                   exploreSelectedMyId,
                   geoPhase, loading, location, mapCenter, myEncounters,
                   nearbyEncounters, selectedEncounter, currentView,
                   showHidden, showUnmatchDialog, showMatchOverlay, openers,
                   published, sent>>

\* ------------------------------------------------------------------ Next
Next ==
    \/ LocationEffect
    \/ PositionSuccess
    \/ PositionError
    \/ EncountersLoaded
    \/ EncountersLoadedFallback
    \/ MoveMap
    \/ ToggleShowHidden
    \/ OpenCreateView
    \/ CloseCreateView
    \/ ClickCreateEncounter
    \/ ClickQuickPublish
    \/ DeleteMyEncounter
    \/ SelectEncounter
    \/ CloseDetails
    \/ ClickConnect
    \/ ClickReject
    \/ OpenUnmatchDialog
    \/ CloseUnmatchDialog
    \/ ClickUnmatch
    \/ ClickOpenChat
    \/ OverlayChat
    \/ OverlayClose
    \/ ChatListClick
    \/ CloseChat
    \/ ClickViewProfile
    \/ SubmitMessage
    \/ OpenerSettles
    \/ ReplyTimeout

Spec == Init /\ [][Next]_vars

\* The handlers as operations of the exposed surface: connect, reject and
\* unmatch invoked on the encounter the details view shows, whatever its
\* status (the render conditions isMatched / isLiked keep the buttons away,
\* the handlers themselves have no guard but their early return).
CallConnect == ShownView = "details" /\ handleConnect

CallReject == ShownView = "details" /\ handleReject

CallUnmatch == ShownView = "details" /\ handleUnmatch

NextHandlers ==
    \/ Next
    \/ CallConnect
    \/ CallReject
    \/ CallUnmatch

SpecHandlers == Init /\ [][NextHandlers]_vars

\* The own posts on their own: the location effect, the map, the create
\* view, both publish buttons and the trash button, with enough publishes
\* to fill the set of own posts and ask for one more.
PublishCreateEncounter ==
    /\ ShownView = "create"
    /\ published < MaxPosts
    /\ \E formFilled \in BOOLEAN : handleCreateEncounter(formFilled)

PublishQuick ==
    /\ ShownView \in {"create", "main"}
    /\ published < MaxPosts
    /\ handleQuickPublish

NextPosts ==
    \/ LocationEffect
    \/ PositionSuccess
    \/ PositionError
    \/ EncountersLoaded
    \/ EncountersLoadedFallback
    \/ MoveMap
    \/ OpenCreateView
    \/ CloseCreateView
    \/ PublishCreateEncounter
    \/ PublishQuick
    \/ DeleteMyEncounter

SpecPosts == Init /\ [][NextPosts]_vars

\* The visible candidates: two own posts at any two points of the map, the
\* catalog with every status the details view can give a candidate, and
\* the "show hidden" checkbox.
NearCreateEncounter ==
    /\ ShownView = "create"
    /\ published < MaxNearPosts
    /\ \E formFilled \in BOOLEAN : handleCreateEncounter(formFilled)

NearQuickPublish ==
    /\ ShownView \in {"create", "main"}
    /\ published < MaxNearPosts
    /\ handleQuickPublish

NextVisible ==
    \/ LocationEffect
    \/ PositionSuccess
    \/ PositionError
    \/ EncountersLoaded
    \/ EncountersLoadedFallback
    \/ MoveMap
    \/ ToggleShowHidden
    \/ OpenCreateView
    \/ CloseCreateView
    \/ NearCreateEncounter
    \/ NearQuickPublish
    \/ DeleteMyEncounter
    \/ SelectEncounter
    \/ CloseDetails
    \/ ClickConnect
    \/ ClickReject
    \/ OverlayClose
    \/ OpenerSettles

SpecVisible == Init /\ [][NextVisible]_vars

\* The map: two own posts at any two points (published with the quick
\* publish gesture), the catalog with every status the details view can
\* give a candidate, the zoom, the toggle of the own posts and the "show
\* hidden" checkbox; the markers are clicked on the map.  The position is
\* the one the device reports, and the opener requests stay outstanding:
\* the chats are not what the map draws.
MapQuickPublish ==
    /\ ShownView = "main"
    /\ published < MaxMapPosts
    /\ handleQuickPublish

NextMap ==
    \/ LocationEffect
    \/ PositionSuccess
    \/ EncountersLoaded
    \/ MoveMap
    \/ ZoomEnd
    \/ ToggleMineFilter
    \/ ToggleShowHidden
    \/ MapQuickPublish
    \/ SelectMarker
    \/ CloseDetails
    \/ ClickConnect
    \/ ClickReject
    \/ OverlayClose

SpecMap == Init /\ [][NextMap]_vars

\* The map at the zoom it opens with: what is handed to the clustering.
NextFilters ==
    \/ LocationEffect
    \/ PositionSuccess
    \/ EncountersLoaded
    \/ MoveMap
    \/ ToggleMineFilter
    \/ ToggleShowHidden
    \/ MapQuickPublish
    \/ SelectMarker
    \/ CloseDetails
    \/ ClickConnect
    \/ ClickReject
    \/ OverlayClose

SpecFilters == Init /\ [][NextFilters]_vars

\* The explore tab: two own posts at any two points, published and deleted,
\* the catalog with its rejected candidates, the "show hidden" checkbox and
\* the three modes of the tab.
ExploreQuickPublish ==
    /\ ShownView = "main"
    /\ published < MaxExplorePosts
    /\ handleQuickPublish

NextExplore ==
    \/ LocationEffect
    \/ PositionSuccess
    \/ EncountersLoaded
    \/ MoveMap
    \/ ToggleShowHidden
    \/ ExploreQuickPublish
    \/ DeleteMyEncounter
    \/ OpenDrilldown
    \/ DrilldownBack
    \/ ToggleExploreList
    \/ SelectExplore
    \/ CloseDetails
    \/ ClickReject

SpecExplore == Init /\ [][NextExplore]_vars

\* The list of the explore tab: candidates with any one or two tags, the
\* tag buttons, two own posts and the "show hidden" checkbox.
TagsEncountersLoaded ==
    /\ geoPhase = "fetching"
    /\ EncountersLoadedWith(getRandomTags)

NextTags ==
    \/ LocationEffect
    \/ PositionSuccess
    \/ TagsEncountersLoaded
    \/ MoveMap
    \/ ToggleShowHidden
    \/ ExploreQuickPublish
    \/ ToggleExploreList
    \/ ClickFilterTag
    \/ SelectExplore
    \/ CloseDetails
    \/ ClickReject

SpecTags == Init /\ [][NextTags]_vars

\* The whole application with a second message: the user can send again
\* while the reply to the first message is still pending.
SendsSubmitMessage ==
    /\ ShownView = "chat"
    /\ sent < MaxChatSends
    /\ sendMessage

NextSends ==
    \/ LocationEffect
    \/ PositionSuccess
    \/ PositionError
    \/ EncountersLoaded
    \/ EncountersLoadedFallback
    \/ MoveMap
    \/ ToggleShowHidden
    \/ OpenCreateView
    \/ CloseCreateView
    \/ ClickCreateEncounter
    \/ ClickQuickPublish
    \/ DeleteMyEncounter
    \/ SelectEncounter
    \/ CloseDetails
    \/ ClickConnect
    \/ ClickReject
    \/ OpenUnmatchDialog
    \/ CloseUnmatchDialog
    \/ ClickUnmatch
    \/ ClickOpenChat
    \/ OverlayChat
    \/ OverlayClose
    \/ ChatListClick
    \/ CloseChat
    \/ ClickViewProfile
    \/ SendsSubmitMessage
    \/ OpenerSettles
    \/ ReplyTimeout

SpecSends == Init /\ [][NextSends]_vars

\* ---------------------------------------------------------------- claims
\* status of the candidate with the given id in a catalog ("none": no such)
StatusIn(encounters, id) ==
    LET isEnc(e) == e.id = id
        f == FindSeq(encounters, isEnc)
    IN  IF IsNull(f) THEN "none" ELSE Val(f).status

\* number of sessions a chat collection holds for the given candidate id
SessionsFor(cs, id) ==
    Cardinality({i \in 1..Len(cs) : cs[i].encounterId = id})

\* ids of a catalog, in order
IdsOf(encounters) == [i \in 1..Len(encounters) |-> encounters[i].id]

SelectedId == Val(selectedEncounter).id
SelectedStatus == StatusIn(nearbyEncounters, SelectedId)

\* C1: Connect on a LIKED_BY_THEM candidate sets its status to MATCHED, and
\* when its opener request settles exactly one session is added to the chat
\* collection: keyed by the candidate's id, with exactly two messages (the
\* system message, then a line authored by the partner) and unreadCount 1.
C1_ConnectLikedByThem ==
    [][ /\ (ClickConnect /\ SelectedStatus = LIKED_BY_THEM) =>
               /\ StatusIn(nearbyEncounters', SelectedId) = MATCHED
               /\ Len(openers') = Len(openers) + 1
               /\ openers'[Len(openers')].id = SelectedId
        /\ \A k \in 1..Len(openers) :
               (\E ok \in BOOLEAN : OpenerSettled(k, ok)) =>
                   /\ Len(chats') = Len(chats) + 1
                   /\ \A i \in 1..Len(chats) : chats'[i + 1] = chats[i]
                   /\ chats'[1].encounterId = openers[k].id
                   /\ Len(chats'[1].messages) = 2
                   /\ chats'[1].messages[1].senderId = "system"
                   /\ chats'[1].messages[2].senderId = openers[k].userId
                   /\ chats'[1].unreadCount = 1
      ]_vars

\* a matched candidate whose only session is the one its Connect created
C1_Witness ==
    /\ Len(openers) = 0
    /\ \E i \in 1..Len(nearbyEncounters) :
           /\ nearbyEncounters[i].status = MATCHED
           /\ SessionsFor(chats, nearbyEncounters[i].id) = 1
           /\ \E j \in 1..Len(chats) :
                  /\ chats[j].encounterId = nearbyEncounters[i].id
                  /\ Len(chats[j].messages) = 2
                  /\ chats[j].messages[2].id = "initial-1"
                  /\ chats[j].unreadCount = 1

\* C2: no candidate is MATCHED while the chat collection has no session for
\* it (match formation is atomic).
C2_MatchAtomic ==
    \A i \in 1..Len(nearbyEncounters) :
        nearbyEncounters[i].status = MATCHED =>
            SessionsFor(chats, nearbyEncounters[i].id) >= 1

\* C3: the chat collection holds at most one session per candidate id.
C3_OneSessionPerCandidate ==
    \A i \in 1..Len(nearbyEncounters) :
        SessionsFor(chats, nearbyEncounters[i].id) <= 1

\* C4: every session of the chat collection belongs to a candidate whose
\* current status is MATCHED.
C4_SessionsAreMatched ==
    \A j \in 1..Len(chats) :
        StatusIn(nearbyEncounters, chats[j].encounterId) = MATCHED

\* C5: Connect on a PENDING candidate sets its status to LIKED_BY_ME and
\* creates no chat session: the chat collection is unchanged and no opener
\* request is started.
C5_ConnectPending ==
    [][ (ClickConnect /\ SelectedStatus = PENDING) =>
            /\ StatusIn(nearbyEncounters', SelectedId) = LIKED_BY_ME
            /\ chats' = chats
            /\ openers' = openers
      ]_vars

\* a candidate that was never liked by them shows as liked by me
C5_Witness ==
    /\ ~IsNull(selectedEncounter)
    /\ Val(selectedEncounter).status = LIKED_BY_ME
    /\ SelectedStatus = LIKED_BY_ME
    /\ ~showHidden
    /\ \A i \in 1..Len(nearbyEncounters) : nearbyEncounters[i].status # HIDDEN
    /\ chats = <<>>

\* C6: Unmatch on a MATCHED candidate sets its status to PENDING and removes
\* its chat session: no session of the collection has its id afterwards and
\* no chat is open.
C6_UnmatchMatched ==
    [][ (ClickUnmatch /\ SelectedStatus = MATCHED) =>
            /\ StatusIn(nearbyEncounters', SelectedId) = PENDING
            /\ SessionsFor(chats', SelectedId) = 0
            /\ \A j \in 1..Len(chats) :
                   chats[j].encounterId # SelectedId =>
                       \E m \in 1..Len(chats') : chats'[m] = chats[j]
            /\ IsNull(activeChat')
      ]_vars

\* after a match and a sent message, the pair is unmatched: the candidate
\* is PENDING again and its session is gone
C6_Witness ==
    /\ sent > 0
    /\ Len(nearbyEncounters) > 0
    /\ nearbyEncounters[1].status = PENDING
    /\ SessionsFor(chats, nearbyEncounters[1].id) = 0
    /\ IsNull(activeChat)
    /\ IsNull(selectedEncounter)

\* C7: Connect on a MATCHED or HIDDEN candidate changes neither the catalog
\* nor the chat collection.
C7_ConnectRejected ==
    [][ (ClickConnect /\ SelectedStatus \in {MATCHED, HIDDEN}) =>
            /\ nearbyEncounters' = nearbyEncounters
            /\ chats' = chats
            /\ openers' = openers
      ]_vars

\* C8: Reject on a PENDING or LIKED_BY_ME candidate sets its status to HIDDEN
\* and the candidate stays in the catalog: the catalog has the same ids in
\* the same order and every other candidate is unchanged.
C8_RejectHides ==
    [][ (CallReject /\ SelectedStatus \in {PENDING, LIKED_BY_ME}) =>
            /\ StatusIn(nearbyEncounters', SelectedId) = HIDDEN
            /\ IdsOf(nearbyEncounters') = IdsOf(nearbyEncounters)
            /\ \A i \in 1..Len(nearbyEncounters) :
                   nearbyEncounters[i].id # SelectedId =>
                       nearbyEncounters'[i] = nearbyEncounters[i]
      ]_vars

\* a hidden candidate is still in the catalog, nothing selected
C8_Witness ==
    /\ IsNull(selectedEncounter)
    /\ currentView = "main"
    /\ Len(nearbyEncounters) = MaxCandidates
    /\ nearbyEncounters[MaxCandidates].status = HIDDEN

\* C9: Reject on a MATCHED or LIKED_BY_THEM candidate changes neither the
\* catalog nor the chat collection.
C9_RejectRejected ==
    [][ (ClickReject /\ SelectedStatus \in {MATCHED, LIKED_BY_THEM}) =>
            /\ nearbyEncounters' = nearbyEncounters
            /\ chats' = chats
      ]_vars

C11_NoReentryLikedByThem ==
    [][ geoPhase = "done" =>
            \A i \in 1..Len(nearbyEncounters') :
                nearbyEncounters'[i].status = LIKED_BY_THEM =>
                    StatusIn(nearbyEncounters, nearbyEncounters'[i].id)
                        = LIKED_BY_THEM
      ]_vars

\* the candidate that was loaded as LIKED_BY_THEM has been through Connect
\* and Unmatch or Reject and is now liked by the user, not by them
C11_Witness ==
    /\ geoPhase = "done"
    /\ location = Some(DeviceCoord)
    /\ Len(nearbyEncounters) > 0
    /\ nearbyEncounters[1].status = LIKED_BY_ME

\* C12: publishing an own post, by the form or by quick publish, when
\* MaxMyEncounters own posts exist leaves the own posts unchanged (and the
\* view and the count of published posts with them).
C12_PublishAtCapacity ==
    [][ ((PublishCreateEncounter \/ PublishQuick)
            /\ Len(myEncounters) = MaxMyEncounters) =>
            /\ myEncounters' = myEncounters
            /\ currentView' = currentView
            /\ published' = published
      ]_vars

\* the create view is open on a full set of own posts: both publish buttons
\* are there to be pressed, and exactly MaxMyEncounters posts were published
C12_Witness ==
    /\ Len(myEncounters) = MaxMyEncounters
    /\ published = MaxMyEncounters
    /\ ShownView = "create"

\* C13: the number of own posts is at most MaxMyEncounters in every state.
C13_AtMostFivePosts == Len(myEncounters) <= MaxMyEncounters

\* a full set of own posts after a deletion and a further publish
C13_Witness ==
    /\ Len(myEncounters) = MaxMyEncounters
    /\ published = MaxPosts

\* a candidate of the catalog is one of the visible candidates
IsVisible(other) ==
    \E j \in 1..Len(visibleEncounters) : visibleEncounters[j] = other

\* some own post lies within the match radius of the candidate
NearSomeOwnPost(other) ==
    \E k \in 1..Len(myEncounters) :
        getDistanceInMeters(myEncounters[k].location, other.location)
            <= MATCH_RADIUS

\* C14: with no own post there is no visible candidate, whatever the
\* catalog, the statuses and showHidden.
C14_NoPostsNothingVisible ==
    Len(myEncounters) = 0 => visibleEncounters = <<>>

\* no own post left, while the catalog holds a hidden candidate and hidden
\* candidates are asked for
C14_Witness ==
    /\ Len(myEncounters) = 0
    /\ showHidden
    /\ Len(nearbyEncounters) = MaxCandidates
    /\ \E i \in 1..Len(nearbyEncounters) : nearbyEncounters[i].status = HIDDEN
    /\ \E i \in 1..Len(nearbyEncounters) : nearbyEncounters[i].status # HIDDEN

\* C15: with at least one own post, a candidate is visible if and only if
\* (showHidden or its status is not HIDDEN) and some own post is at distance
\* <= MATCH_RADIUS from it.
C15_VisibleIff ==
    Len(myEncounters) > 0 =>
        \A i \in 1..Len(nearbyEncounters) :
            IsVisible(nearbyEncounters[i]) <=>
                /\ showHidden \/ nearbyEncounters[i].status # HIDDEN
                /\ NearSomeOwnPost(nearbyEncounters[i])

\* two own posts; a candidate exactly at the match radius from one of them
\* and beyond it from the other is visible, and a hidden candidate next to
\* an own post is not
C15_Witness ==
    /\ Len(myEncounters) = 2
    /\ ~showHidden
    /\ \E i \in 1..Len(nearbyEncounters) :
           /\ IsVisible(nearbyEncounters[i])
           /\ \E k \in 1..2 :
                  getDistanceInMeters(myEncounters[k].location,
                                      nearbyEncounters[i].location)
                      = MATCH_RADIUS
           /\ \E k \in 1..2 :
                  getDistanceInMeters(myEncounters[k].location,
                                      nearbyEncounters[i].location)
                      > MATCH_RADIUS
    /\ \E i \in 1..Len(nearbyEncounters) :
           /\ nearbyEncounters[i].status = HIDDEN
           /\ NearSomeOwnPost(nearbyEncounters[i])
           /\ ~IsVisible(nearbyEncounters[i])

\* the candidate id of the session the oldest pending reply was armed for
TimerId == Head(timers).activeChat.encounterId

\* the chat of the given candidate is the open, focused view
ChatFocused(id) ==
    /\ ShownView = "chat"
    /\ Val(activeChat).encounterId = id

\* one sequence of messages is a prefix of another
IsPrefix(a, b) ==
    /\ Len(a) <= Len(b)
    /\ \A i \in 1..Len(a) : b[i] = a[i]

\* the given messages followed by one of the user and one of the partner
GainedTwo(before, after) ==
    /\ Len(after) = Len(before) + 2
    /\ IsPrefix(before, after)
    /\ after[Len(before) + 1].senderId = "me"
    /\ after[Len(before) + 2].senderId = "partner"

\* C16: one message sent in a chat that is still the open, focused view
\* when the reply lands: the send appends the user's message to the open
\* chat, and after the reply the session holds the messages it had before
\* the send followed by the user's message and the partner's reply, with
\* unreadCount 0, in the chat collection and in the open chat.
C16_FocusedReply ==
    [][ /\ SubmitMessage =>
               /\ Len(Val(activeChat').messages)
                      = Len(Val(activeChat).messages) + 1
               /\ IsPrefix(Val(activeChat).messages,
                           Val(activeChat').messages)
        /\ (ReplyTimeout
               /\ ChatFocused(TimerId)
               /\ activeChat = Some(Head(timers).updatedChat)) =>
               LET before == Head(timers).activeChat.messages
               IN  /\ SessionsFor(chats', TimerId) >= 1
                   /\ \A j \in 1..Len(chats') :
                          chats'[j].encounterId = TimerId =>
                              /\ GainedTwo(before, chats'[j].messages)
                              /\ chats'[j].unreadCount = 0
                   /\ GainedTwo(before, Val(activeChat').messages)
                   /\ Val(activeChat').unreadCount = 0
      ]_vars

\* the reply has landed in the open chat: its last two messages are the
\* user's and the partner's, and its session is read
C16_Witness ==
    /\ ShownView = "chat"
    /\ sent = 1
    /\ timers = <<>>
    /\ ~isTyping
    /\ LET ms == Val(activeChat).messages
       IN  /\ Len(ms) >= 3
           /\ ms[Len(ms) - 1].senderId = "me"
           /\ ms[Len(ms)].senderId = "partner"
    /\ \E j \in 1..Len(chats) :
           /\ chats[j] = Val(activeChat)
           /\ chats[j].unreadCount = 0

\* C17: a reply that lands while its chat is not the open, focused view is
\* appended to the session and increments its unreadCount by exactly 1.
C17_UnfocusedReply ==
    [][ (ReplyTimeout
            /\ ~ChatFocused(TimerId)
            /\ SessionsFor(chats, TimerId) >= 1) =>
            \A j \in 1..Len(chats) :
                chats[j].encounterId = TimerId =>
                    /\ Len(chats'[j].messages) = Len(chats[j].messages) + 1
                    /\ IsPrefix(chats[j].messages, chats'[j].messages)
                    /\ chats'[j].unreadCount = chats[j].unreadCount + 1
      ]_vars

\* the chat collection holds one session per candidate id
OneSessionEach ==
    \A i, j \in 1..Len(chats) :
        chats[i].encounterId = chats[j].encounterId => i = j

\* C18: messages are append-only: a send or a reply on a chat collection
\* with one session per candidate leaves every session's messages as a
\* prefix of its messages after the step.
C18_AppendOnly ==
    [][ ((SendsSubmitMessage \/ ReplyTimeout) /\ OneSessionEach) =>
            /\ Len(chats') = Len(chats)
            /\ \A j \in 1..Len(chats) :
                   /\ chats'[j].encounterId = chats[j].encounterId
                   /\ IsPrefix(chats[j].messages, chats'[j].messages)
      ]_vars

\* the session the pending reply was armed for was destroyed by Unmatch
\* after the send: its candidate is no longer MATCHED (only Unmatch takes a
\* candidate out of MATCHED) and no session holds what the send wrote
SessionDestroyed ==
    /\ StatusIn(nearbyEncounters, TimerId) # MATCHED
    /\ \A j \in 1..Len(chats) : chats[j] # Head(timers).updatedChat

\* C19: a reply that fires after Unmatch destroyed its session is
\* discarded: no session of that candidate is in the chat collection after
\* it, the open chat and the view are as before, and no status changes.
C19_StaleReplyDiscarded ==
    [][ (ReplyTimeout /\ SessionDestroyed) =>
            /\ SessionsFor(chats', TimerId) = 0
            /\ activeChat' = activeChat
            /\ currentView' = currentView
            /\ nearbyEncounters' = nearbyEncounters
      ]_vars

\* C20: a reply that fires when its session does not exist or its
\* candidate is not MATCHED is dropped: the chat collection and the open
\* chat are unchanged.
C20_ReplyRevalidates ==
    [][ (ReplyTimeout
            /\ ~(/\ SessionsFor(chats, TimerId) >= 1
                 /\ StatusIn(nearbyEncounters, TimerId) = MATCHED)) =>
            /\ chats' = chats
            /\ activeChat' = activeChat
      ]_vars

\* C21: opening the chat of a MATCHED candidate that has no session adds
\* exactly one session, whose only message is the system message and whose
\* unreadCount is 0; opening a chat that has a session leaves the number of
\* sessions as it is and every session of that candidate with unreadCount 0.
C21_OpenChat ==
    [][ /\ ((ClickOpenChat \/ OverlayChat)
               /\ ~IsNull(selectedEncounter)
               /\ SelectedStatus = MATCHED
               /\ SessionsFor(chats, SelectedId) = 0) =>
               /\ Len(chats') = Len(chats) + 1
               /\ \A j \in 1..Len(chats) : chats'[j] = chats[j]
               /\ LET new == chats'[Len(chats')]
                  IN  /\ new.encounterId = SelectedId
                      /\ Len(new.messages) = 1
                      /\ new.messages[1].senderId = "system"
                      /\ new.unreadCount = 0
                      /\ activeChat' = Some(new)
        /\ ((ClickOpenChat \/ OverlayChat)
               /\ ~IsNull(selectedEncounter)
               /\ SessionsFor(chats, SelectedId) >= 1) =>
               /\ Len(chats') = Len(chats)
               /\ \A j \in 1..Len(chats') :
                      chats'[j].encounterId = SelectedId =>
                          chats'[j].unreadCount = 0
               /\ \A j \in 1..Len(chats) :
                      chats[j].encounterId # SelectedId =>
                          chats'[j] = chats[j]
        /\ ChatListClick =>
               /\ Len(chats') = Len(chats)
               /\ \A j \in 1..Len(chats') :
                      chats'[j].encounterId = Val(activeChat').encounterId =>
                          chats'[j].unreadCount = 0
      ]_vars

\* the chat of a matched candidate was opened while its opener request was
\* still outstanding: the only session is the recovery session, read
C21_Witness ==
    /\ ShownView = "chat"
    /\ Len(openers) = 1
    /\ Len(chats) = 1
    /\ chats[1].encounterId = openers[1].id
    /\ Len(chats[1].messages) = 1
    /\ chats[1].messages[1].id = "sys-recovery"
    /\ chats[1].unreadCount = 0
    /\ activeChat = Some(chats[1])

\* C22: when the opener generator fails the match is still formed: Connect
\* on a LIKED_BY_THEM candidate sets MATCHED, and the request settling with
\* a failure prepends a session with two messages, the second being the
\* fixed default opener, authored by the partner.
C22_OpenerFallback ==
    [][ /\ (ClickConnect /\ SelectedStatus = LIKED_BY_THEM) =>
               StatusIn(nearbyEncounters', SelectedId) = MATCHED
        /\ \A k \in 1..Len(openers) :
               OpenerSettled(k, FALSE) =>
                   /\ Len(chats') = Len(chats) + 1
                   /\ chats'[1].encounterId = openers[k].id
                   /\ Len(chats'[1].messages) = 2
                   /\ chats'[1].messages[2].text = FallbackOpener
                   /\ chats'[1].messages[2].senderId = openers[k].userId
      ]_vars

\* a matched candidate whose session holds the fixed default opener
C22_Witness ==
    /\ Len(openers) = 0
    /\ \E i \in 1..Len(nearbyEncounters) :
           /\ nearbyEncounters[i].status = MATCHED
           /\ \E j \in 1..Len(chats) :
                  /\ chats[j].encounterId = nearbyEncounters[i].id
                  /\ Len(chats[j].messages) = 2
                  /\ chats[j].messages[2].text = FallbackOpener

\* ------------------------------------------------------------ the map
\* the square of the planar distance of two posts, in micro-degrees
PlanarSq(p, q) ==
    (Lat(p.location) - Lat(q.location)) * (Lat(p.location) - Lat(q.location))
    + (Lng(p.location) - Lng(q.location)) * (Lng(p.location) - Lng(q.location))

\* the distance of two posts is strictly below the threshold of the zoom
Near(p, q, zoom) ==
    PlanarSq(p, q) < clusterThreshold(zoom) * clusterThreshold(zoom)

\* the groups of the markers the map shows
ShownGroups == clusterGroups(markersToShow, mapZoom)

RECURSIVE GroupsOf(_, _)
\* the number of times a post is a member of one of the groups
GroupsOf(groups, id) ==
    IF Len(groups) = 0 THEN 0
    ELSE Cardinality({k \in 1..Len(groups[1]) : groups[1][k].id = id})
         + GroupsOf(Tail(groups), id)

RECURSIVE SumCount(_)
SumCount(clusters) ==
    IF Len(clusters) = 0 THEN 0
    ELSE clusters[1].count + SumCount(Tail(clusters))

\* C23: when two posts are shown, they make one cluster of count 2 at their
\* mean coordinate and no single marker if their distance is strictly below
\* the threshold (two posts at the same coordinate included), and two
\* single markers and no cluster otherwise.
C23_TwoPosts ==
    Len(markersToShow) = 2 =>
        LET p == markersToShow[1]
            q == markersToShow[2]
            drawn == clusteredMarkers
        IN  IF Near(p, q, mapZoom)
            THEN /\ drawn.singles = <<>>
                 /\ Len(drawn.clusters) = 1
                 /\ drawn.clusters[1].count = 2
                 /\ drawn.clusters[1].lat =
                        Mean(Lat(p.location) + Lat(q.location), 2)
                 /\ drawn.clusters[1].lng =
                        Mean(Lng(p.location) + Lng(q.location), 2)
            ELSE /\ drawn.clusters = <<>>
                 /\ drawn.singles = <<p, q>>

\* C26: the output of the clustering partitions the posts shown: every
\* post is the seed or a member of exactly one group, a group of one is one
\* single marker, and the single markers plus the counts of the clusters
\* are as many as the posts shown.
C26_Partition ==
    LET markers == markersToShow
        groups == clusterGroups(markers, mapZoom)
        drawn == clusteredMarkersFor(markers, mapZoom)
    IN  /\ \A i \in 1..Len(markers) : GroupsOf(groups, markers[i].id) = 1
        /\ \A g \in 1..Len(groups) :
               \A k \in 1..Len(groups[g]) :
                   \E i \in 1..Len(markers) : markers[i] = groups[g][k]
        /\ \A i \in 1..Len(drawn.singles) :
               \E g \in 1..Len(groups) : groups[g] = <<drawn.singles[i]>>
        /\ \A i \in 1..Len(drawn.clusters) : drawn.clusters[i].count >= 2
        /\ Len(drawn.singles) + SumCount(drawn.clusters) = Len(markers)

\* three posts are shown, two of them in one cluster and the third, which
\* lies where the seed of the cluster lies, as a single marker
C26_Witness ==
    /\ Len(markersToShow) = 3
    /\ LET groups == ShownGroups
       IN  /\ Len(groups) = 2
           /\ Len(groups[1]) = 2
           /\ groups[2][1].location = groups[1][1].location

\* C27: a post joins a group exactly when its distance to the seed of the
\* group is below the threshold: every member is near the seed, and a post
\* left for a later group is not near the seed of an earlier one.
C27_SeedDecides ==
    LET groups == ShownGroups
    IN  /\ \A g \in 1..Len(groups) :
               \A k \in 2..Len(groups[g]) :
                   Near(groups[g][1], groups[g][k], mapZoom)
        /\ \A g, h \in 1..Len(groups) :
               g < h =>
                   \A k \in 1..Len(groups[h]) :
                       ~Near(groups[g][1], groups[h][k], mapZoom)

\* the records of the four toggles
FilterRecords == [mine : BOOLEAN, possible : BOOLEAN, likedMe : BOOLEAN,
                  match : BOOLEAN]

\* the toggle of the category of a candidate
CategoryShown(filters, hidden, status) ==
    CASE status = MATCHED -> filters.match
      [] status = LIKED_BY_THEM -> filters.likedMe
      [] status = HIDDEN -> hidden
      [] status \in {PENDING, LIKED_BY_ME} -> filters.possible

\* the number of elements of a sequence that are equal to x
Occurrences(seq, x) == Cardinality({i \in 1..Len(seq) : seq[i] = x})

\* C28: the posts handed to the clustering are the own posts exactly when
\* 'mine' is on, and every visible candidate exactly when the toggle of its
\* category is on (MATCHED: match; LIKED_BY_THEM: likedMe; HIDDEN: the
\* show-hidden setting; PENDING and LIKED_BY_ME: possible), each once and
\* nothing else; an empty set gives no clusters and no single markers.
\* Stated of the memo for every setting of the toggles.
C28_MarkersToShow ==
    /\ markersToShow =
           markersFor(mapFilters, showHidden, myEncounters, visibleEncounters)
    /\ LET mine == myEncounters
           visible == visibleEncounters
       IN  \A filters \in FilterRecords : \A hidden \in BOOLEAN :
               LET markers == markersFor(filters, hidden, mine, visible)
               IN  /\ \A i \in 1..Len(mine) :
                          Occurrences(markers, mine[i]) =
                              IF filters.mine THEN 1 ELSE 0
                   /\ \A i \in 1..Len(visible) :
                          Occurrences(markers, visible[i]) =
                              IF CategoryShown(filters, hidden,
                                               visible[i].status)
                              THEN 1 ELSE 0
                   /\ \A k \in 1..Len(markers) :
                          \/ \E i \in 1..Len(mine) : markers[k] = mine[i]
                          \/ \E i \in 1..Len(visible) :
                                 markers[k] = visible[i]
                   /\ Len(markers) = 0 =>
                          clusteredMarkersFor(markers, mapZoom) =
                              [clusters |-> <<>>, singles |-> <<>>]

\* the own posts are switched off on the map while a rejected candidate is
\* shown on it
C28_Witness ==
    /\ ~mapFilters.mine
    /\ Len(myEncounters) > 0
    /\ showHidden
    /\ \E k \in 1..Len(markersToShow) : markersToShow[k].status = HIDDEN
    /\ \A k \in 1..Len(markersToShow) : markersToShow[k].userId # "me"

\* C29: the threshold never grows with the zoom and takes three values by
\* band: 0.005 degrees below zoom 14, 0.001 at zooms 14 and 15, 0.0002
\* from zoom 16 on.
C29_ThresholdBands ==
    /\ clusterThreshold(mapZoom) =
           CASE mapZoom < 14 -> 5000
             [] mapZoom \in {14, 15} -> 1000
             [] mapZoom >= 16 -> 200
    /\ \A z \in Zooms :
           /\ z < mapZoom => clusterThreshold(z) >= clusterThreshold(mapZoom)
           /\ z > mapZoom => clusterThreshold(z) <= clusterThreshold(mapZoom)

\* the map was zoomed out to the coarsest band with two posts on it
C29_Witness ==
    /\ mapZoom < 14
    /\ Len(markersToShow) >= 2

\* C24: when the position cannot be had, because the request fails or
\* because there is no location source, the fallback coordinate is adopted
\* and the loading screen is left with a location set.  Stated on the
\* states: once the effect has run without a request outstanding or a
\* catalog being fetched, the loading screen is not shown, and as long as it
\* is shown a step of the application remains possible.
C24_LoadingIsLeft ==
    /\ geoPhase \in {"unsupported", "fetchingFallback", "done"} =>
           /\ ~IsNull(location)
           /\ ShownView # "loading"
    /\ ShownView = "loading" => ENABLED Next

\* C25: Connect, Reject and Unmatch on a candidate change nothing of the
\* catalog but the status of that candidate: the catalog has the same ids in
\* the same places, every other candidate is as it was, the candidate
\* itself differs at most in its status, and the own posts are as they were.
C25_HandlersFrame ==
    [][ (CallConnect \/ CallReject \/ CallUnmatch
         \/ ClickConnect \/ ClickReject \/ ClickUnmatch) =>
            /\ myEncounters' = myEncounters
            /\ Len(nearbyEncounters') = Len(nearbyEncounters)
            /\ IdsOf(nearbyEncounters') = IdsOf(nearbyEncounters)
            /\ \A i \in 1..Len(nearbyEncounters) :
                   IF nearbyEncounters[i].id = SelectedId
                   THEN \E st \in EncounterStatus :
                            nearbyEncounters'[i] =
                                [nearbyEncounters[i] EXCEPT !.status = st]
                   ELSE nearbyEncounters'[i] = nearbyEncounters[i]
      ]_vars

\* a catalog of two after a reject and a match, with an own post published:
\* one candidate is HIDDEN, the other MATCHED
C25_Witness ==
    /\ Len(myEncounters) = 1
    /\ Len(nearbyEncounters) = 2
    /\ nearbyEncounters[1].status = MATCHED
    /\ nearbyEncounters[2].status = HIDDEN
    /\ nearbyEncounters[1].id # nearbyEncounters[2].id

\* the places of the visible set that hold a candidate within the match
\* radius of an own post
WithinRadiusOf(myPost, visible) ==
    {i \in 1..Len(visible) :
        getDistanceInMeters(myPost.location, visible[i].location)
            <= MATCH_RADIUS}

\* list holds the candidates of those places, each once and nothing else
ListsExactly(list, visible, places) ==
    /\ Len(list) = Cardinality(places)
    /\ \A i \in places : \E k \in 1..Len(list) : list[k] = visible[i]
    /\ \A k \in 1..Len(list) : \E i \in places : list[k] = visible[i]

\* C30: the grouped count of every own post is the number of candidates of
\* the visible set within the match radius of that post, and the drill-down
\* list of a selected own post holds exactly those candidates; it is empty
\* when the selected own post is no longer among the own posts.
C30_GroupedAndDrilldown ==
    LET visible == visibleEncounters
    IN  /\ \A m \in 1..Len(myEncounters) :
               groupedCount(myEncounters[m]) =
                   Cardinality(WithinRadiusOf(myEncounters[m], visible))
        /\ (exploreMode = "drilldown" /\ ~IsNull(exploreSelectedMyId)) =>
               /\ \A m \in 1..Len(myEncounters) :
                      myEncounters[m].id = Val(exploreSelectedMyId) =>
                          ListsExactly(exploreList, visible,
                              WithinRadiusOf(myEncounters[m], visible))
               /\ (\A m \in 1..Len(myEncounters) :
                       myEncounters[m].id # Val(exploreSelectedMyId)) =>
                      exploreList = <<>>

\* the drill-down of one of two own posts lists a candidate and leaves out
\* another visible candidate, which is near the other own post only
C30_Witness ==
    /\ exploreMode = "drilldown"
    /\ ~IsNull(exploreSelectedMyId)
    /\ \E m \in 1..Len(myEncounters) :
           myEncounters[m].id = Val(exploreSelectedMyId)
    /\ Len(exploreList) = 1
    /\ Len(visibleEncounters) = 2

\* C31: the list of the explore tab is the visible set restricted to the
\* candidates that have at least one of the chosen tags, in the order of the
\* visible set; with no tag chosen it is the visible set.
C31_TagFilteredList ==
    exploreMode = "list" =>
        LET visible == visibleEncounters
            list == exploreList
            kept == {i \in 1..Len(visible) :
                        visible[i].tags \cap filterTags # {}}
        IN  /\ filterTags = {} => list = visible
            /\ filterTags # {} =>
                   /\ Len(list) = Cardinality(kept)
                   /\ \A i \in kept : \E k \in 1..Len(list) :
                          list[k] = visible[i]
                   /\ \A k \in 1..Len(list) : \E i \in kept :
                          list[k] = visible[i]

\* one tag is chosen: of two visible candidates the list shows the one that
\* has it and leaves out the one that has not
C31_Witness ==
    /\ exploreMode = "list"
    /\ Cardinality(filterTags) = 1
    /\ Len(visibleEncounters) = 2
    /\ Len(exploreList) = 1
    /\ exploreList[1].tags \cap filterTags # {}

\* a reply of the partner is pending for the session the chat view shows
ReplyPendingForOpenChat ==
    /\ ~IsNull(activeChat)
    /\ \E k \in 1..Len(timers) :
           timers[k].activeChat.encounterId = Val(activeChat).encounterId

\* C32: the typing flag is true whenever a delayed reply is pending for the
\* open session, and false once no reply is pending.
C32_TypingWhilePending ==
    /\ ReplyPendingForOpenChat => isTyping
    /\ Len(timers) = 0 => ~isTyping

\* C33: the catalog is loaded with at most one candidate LIKED_BY_THEM and
\* every other candidate PENDING, and the chat collection is empty at the
\* start and when the catalog arrives.
C33_CatalogAsLoaded ==
    /\ chats = <<>>
    /\ [][ (EncountersLoaded \/ EncountersLoadedFallback) =>
               /\ Cardinality({i \in 1..Len(nearbyEncounters') :
                      nearbyEncounters'[i].status = LIKED_BY_THEM}) <= 1
               /\ \A i \in 1..Len(nearbyEncounters') :
                      nearbyEncounters'[i].status \in {LIKED_BY_THEM, PENDING}
               /\ chats' = <<>>
          ]_vars

\* a catalog of two has just arrived: the first candidate is LIKED_BY_THEM,
\* the second PENDING, and nothing has been done with it yet
C33_Witness ==
    /\ geoPhase = "done"
    /\ Len(nearbyEncounters) = 2
    /\ nearbyEncounters[1].status = LIKED_BY_THEM
    /\ nearbyEncounters[2].status = PENDING
    /\ chats = <<>>
    /\ Len(myEncounters) = 0
    /\ IsNull(selectedEncounter)

\* the candidates that enter MATCHED in a step
EnteringMatched ==
    {i \in 1..Len(nearbyEncounters') :
        /\ nearbyEncounters'[i].status = MATCHED
        /\ nearbyEncounters[i].status # MATCHED}

\* C34: a candidate enters MATCHED at most once.  Once the catalog is loaded
\* a candidate enters MATCHED only from LIKED_BY_THEM, no candidate becomes
\* LIKED_BY_THEM, and at most one candidate is LIKED_BY_THEM or MATCHED; an
\* opener request, which is what creates the session of a match, is started
\* only by a step in which a candidate enters MATCHED.
C34_MatchedAtMostOnce ==
    [][ geoPhase = "done" =>
            /\ Len(nearbyEncounters') = Len(nearbyEncounters)
            /\ \A i \in EnteringMatched :
                   nearbyEncounters[i].status = LIKED_BY_THEM
            /\ \A i \in 1..Len(nearbyEncounters') :
                   nearbyEncounters'[i].status = LIKED_BY_THEM =>
                       nearbyEncounters[i].status = LIKED_BY_THEM
            /\ Cardinality({i \in 1..Len(nearbyEncounters') :
                   nearbyEncounters'[i].status
                       \in {LIKED_BY_THEM, MATCHED}}) <= 1
            /\ Len(openers') > Len(openers) =>
                   /\ Len(openers') = Len(openers) + 1
                   /\ EnteringMatched # {}
      ]_vars

\* the candidate that was matched (its match session is there) has been
\* unmatched and Connect has been pressed on it again: it is LIKED_BY_ME
C34_Witness ==
    /\ ShownView = "details"
    /\ SelectedStatus = LIKED_BY_ME
    /\ StatusIn(nearbyEncounters, SelectedId) = LIKED_BY_ME
    /\ \E j \in 1..Len(chats) :
           /\ chats[j].encounterId = SelectedId
           /\ chats[j].messages[1].id = "sys-1"
    /\ \A i \in 1..Len(nearbyEncounters) :
           nearbyEncounters[i].status # MATCHED

\* chats.find(c => c.encounterId === activeChat.encounterId), as a set that
\* is empty when no session has the id
SessionOfActiveChat ==
    IF IsNull(activeChat)
    THEN {}
    ELSE LET hasId(c) == c.encounterId = Val(activeChat).encounterId
             found == FindSeq(chats, hasId)
         IN  IF IsNull(found) THEN {} ELSE {Val(found)}

\* C35: whenever a chat is open, the chat collection has a session with the
\* id of the active chat, and the session found by that id has the messages
\* and the unread counter of the active chat.
C35_ActiveChatIsItsSession ==
    ~IsNull(activeChat) =>
        /\ SessionOfActiveChat # {}
        /\ \A c \in SessionOfActiveChat :
               /\ c.messages = Val(activeChat).messages
               /\ c.unreadCount = Val(activeChat).unreadCount

\* s without its i-th element
WithoutIndex(s, i) ==
    [k \in 1..(Len(s) - 1) |-> IF k < i THEN s[k] ELSE s[k + 1]]

\* C36: deleting an own post removes exactly that post: the other own posts
\* stay, in their order, and the catalog with its statuses and the chat
\* sessions are unchanged; once the last own post is deleted no candidate
\* is visible, MATCHED ones included, and the sessions are still there.
C36_DeleteOwnPost ==
    [][ DeleteMyEncounter =>
            /\ \E i \in 1..Len(myEncounters) :
                   /\ myEncounters' = WithoutIndex(myEncounters, i)
                   /\ \A k \in 1..Len(myEncounters') :
                          myEncounters'[k].id # myEncounters[i].id
            /\ nearbyEncounters' = nearbyEncounters
            /\ chats' = chats
            /\ Len(myEncounters') = 0 =>
                   /\ visibleEncounters' = <<>>
                   /\ \A i \in 1..Len(nearbyEncounters') :
                          ~IsVisible(nearbyEncounters[i])'
      ]_vars

\* both own posts have been published and deleted again: the MATCHED
\* candidate is not visible, in front of nobody, and its session exists
C36_Witness ==
    /\ published = MaxNearPosts
    /\ Len(myEncounters) = 0
    /\ visibleEncounters = <<>>
    /\ \E i \in 1..Len(nearbyEncounters) :
           /\ nearbyEncounters[i].status = MATCHED
           /\ \E j \in 1..Len(chats) :
                  chats[j].encounterId = nearbyEncounters[i].id

\* the sum of the unread counters of the sessions 1..n of the collection
RECURSIVE UnreadOfFirst(_)
UnreadOfFirst(n) ==
    IF n = 0 THEN 0 ELSE UnreadOfFirst(n - 1) + chats[n].unreadCount

\* C37: every session's unread counter is a natural number, the reported
\* total is the sum of the counters, and a click on a row of the chat list
\* sets that session's counter to 0, keeps its messages, opens it and
\* leaves every other session as it was.
C37_UnreadCounters ==
    /\ [](/\ \A i \in 1..Len(chats) : chats[i].unreadCount \in Nat
          /\ totalUnreadCount = UnreadOfFirst(Len(chats)))
    /\ [][ ChatListClick =>
               /\ Len(chats') = Len(chats)
               /\ \E i \in 1..Len(chats) :
                      /\ chats'[i].unreadCount = 0
                      /\ chats'[i].messages = chats[i].messages
                      /\ chats'[i].encounterId = chats[i].encounterId
                      /\ activeChat' = Some(chats'[i])
                      /\ \A j \in 1..Len(chats) :
                             j # i => chats'[j] = chats[j]
       ]_vars

====
